---- MODULE Spec2Model ----
(***************************************************************************)
(* One client session of the GoExpose server: ClientHandler.handle (the    *)
(* select loop with its three deferred closes), the readFrames goroutine    *)
(* it starts, digestFrame, and the environment they run in (the remote     *)
(* client on the control connection, the parent context, and the producers *)
(* of outbound frames).                                                    *)
(***************************************************************************)
EXTENDS Naturals, Integers, Sequences, FiniteSets, TLC

\* ---------------------------------------------------------------- constants
\* make(chan *Utils.CTRLFrame, 10): capacity of reqChan and of respChan
ChanCap == 10

\* const TCPPROXYBASE, TCPPROXYAMOUNT: the ports reserved for relay listeners
TCPPROXYBASE == 47923
TCPPROXYAMOUNT == 10

\* ------------------------------------------------------------------- bounds
\* frames of arbitrary type the remote client sends in one session
MaxFrames == 2
\* outbound frames placed on respChan in one session
MaxOut == 2
\* calls of waitForCtrlConnection in one run of the server
MaxIter == 3
\* sessions HandleClient creates
MaxSessions == 2
\* relays one session holds at a time
MaxRelays == 2

\* frames the remote client sends in a run of frames of a single type; one
\* more than the queue holds, so that the reader meets a full reqChan
BurstFrames == ChanCap + 1

\* Utils.CTRLFrame.Typ: the five types digestFrame names, and any other value
CTRLUNPAIR == "CTRLUNPAIR"
CTRLEXPOSETCP == "CTRLEXPOSETCP"
CTRLHIDETCP == "CTRLHIDETCP"
CTRLEXPOSEUDP == "CTRLEXPOSEUDP"
CTRLHIDEUDP == "CTRLHIDEUDP"
CTRLOTHER == "CTRLOTHER"

FrameTypes ==
    {CTRLUNPAIR, CTRLEXPOSETCP, CTRLHIDETCP, CTRLEXPOSEUDP, CTRLHIDEUDP, CTRLOTHER}

ExposeHideTypes == {CTRLEXPOSETCP, CTRLHIDETCP, CTRLEXPOSEUDP, CTRLHIDEUDP}

NoFrame == "none"

VARIABLES
    hpc,         \* position of handle: select, writing, the three defers, done
    rpc,         \* position of readFrames: select, reading, sending, done, panic
    reqChan,     \* buffered frames of reqChan (frame types), oldest first
    respChan,    \* buffered frames of respChan (frame numbers), oldest first
    reqClosed,   \* close(reqChan) has run
    respClosed,  \* close(respChan) has run
    connClosed,  \* c.Conn.Close() has run
    cnlCalled,   \* cnl() of clientctx has been called
    parentDone,  \* the context handed to handle is cancelled
    rfr,         \* the frame readFrames holds between ReadFrame and the send
    wmsg,        \* the frame handle is writing with c.Conn.Write (0: none)
    written,     \* frames written to the client so far, in order of the writes
    nOut,        \* outbound frames placed on respChan so far
    digested,    \* calls of digestFrame so far
    lastTyp,     \* Typ of the frame given to the last call of digestFrame
    triggers,    \* which causes of a cancellation have happened
    wire,        \* frame types the remote client sends in this session
    budget,      \* frames the remote client may still send
    exposedTcpPorts, \* ClientHandler.exposedTcpPorts: ports with a TCP relay
    exposedUdpPorts, \* ClientHandler.exposedUdpPorts: ports with a UDP relay
    proxyPorts,  \* ClientHandler.proxyPorts: the free ports of its Portqueue
    \* ---- Server.run and waitForCtrlConnection
    spc,         \* position of Server.run
    ctxDone,     \* the context handed to Server.run is cancelled
    tlsOk,       \* prepareTlsConfig returns a configuration
    iter,        \* calls of waitForCtrlConnection so far
    openL,       \* calls whose TLS listener is bound and not yet closed
    cancelledL,  \* calls whose listCancel() has run
    proxy,       \* s.proxy: 0 is nil, k the proxy made by call k
    acceptRes,   \* how l.Accept() of the latest call ended: none, ok, closed, err
    managed,     \* the proxies whose connection run is managing
    panicCause,  \* why Server.run panicked: none, bind, bindOwn, nilproxy
    \* ---- the sessions HandleClient creates, and their port pools
    sessPool,    \* for each session, the Portqueue its proxyPorts points to
    poolFree,    \* for each Portqueue, its free ports
    relayPorts   \* for each session, the ports checked out to its relays

\* the relay tables and the port pool of the session
tblVars == <<exposedTcpPorts, exposedUdpPorts, proxyPorts>>

\* the state of Server.run
srvVars == <<spc, ctxDone, tlsOk, iter, openL, cancelledL, proxy, acceptRes,
             managed, panicCause>>

\* the sessions and their pools
poolVars == <<sessPool, poolFree, relayPorts>>

\* the state of one ClientHandler session
hVars == <<hpc, rpc, reqChan, respChan, reqClosed, respClosed, connClosed,
           cnlCalled, parentDone, rfr, wmsg, written, nOut, digested, lastTyp,
           triggers, wire, budget, tblVars>>

vars == <<hpc, rpc, reqChan, respChan, reqClosed, respClosed, connClosed,
          cnlCalled, parentDone, rfr, wmsg, written, nOut, digested, lastTyp,
          triggers, wire, budget, tblVars, srvVars, poolVars>>

\* clientctx.Done() is readable: cnl() was called or the parent is cancelled
Done == cnlCalled \/ parentDone

\* a panic in any goroutine ends the process: nothing runs after it
Alive == rpc # "panic"

\* the ports a Portqueue holds when it is made
AllPorts == TCPPROXYBASE..(TCPPROXYBASE + TCPPROXYAMOUNT - 1)

\* Server.run has not been started
SrvIdle ==
    /\ spc = "idle"
    /\ ctxDone = FALSE
    /\ tlsOk = TRUE
    /\ iter = 0
    /\ openL = {}
    /\ cancelledL = {}
    /\ proxy = 0
    /\ acceptRes = "none"
    /\ managed = {}
    /\ panicCause = "none"

\* HandleClient has not been called
PoolIdle ==
    /\ sessPool = <<>>
    /\ poolFree = <<>>
    /\ relayPorts = <<>>

\* HandleClient: the ClientHandler as handle finds it, and handle up to the
\* start of readFrames
HandlerStart ==
    /\ exposedTcpPorts = {}
    /\ exposedUdpPorts = {}
    /\ proxyPorts = AllPorts
    /\ hpc = "select"
    /\ rpc = "select"
    /\ reqChan = <<>>
    /\ respChan = <<>>
    /\ reqClosed = FALSE
    /\ respClosed = FALSE
    /\ connClosed = FALSE
    /\ cnlCalled = FALSE
    /\ parentDone = FALSE
    /\ rfr = NoFrame
    /\ wmsg = 0
    /\ written = <<>>
    /\ nOut = 0
    /\ digested = 0
    /\ lastTyp = NoFrame
    /\ triggers = {}

Init ==
    /\ HandlerStart
    /\ \/ wire = FrameTypes /\ budget = MaxFrames
       \/ wire = {CTRLEXPOSETCP} /\ budget = BurstFrames
    /\ SrvIdle
    /\ PoolIdle

\* ------------------------------------------------------------ digestFrame
\* a digestFrame whose switch has a default branch that unpairs the client
DigestCancelsUnknown(typ) == typ \notin ExposeHideTypes

\* whether digestFrame calls cnl() for a frame of this type
DigestCancels(typ) == typ = CTRLUNPAIR

\* respChan after digestFrame(msg, toclient, cnl): no branch sends on toclient
DigestResp(typ, q) == q

\* a digestFrame whose EXPOSE branches start a relay on a port of the pool
\* (tbl: the TCP table, the UDP table, the free ports)
DigestTablesExpose(typ, tbl) ==
    IF typ \in {CTRLEXPOSETCP, CTRLEXPOSEUDP} /\ tbl[3] # {}
    THEN LET port == CHOOSE x \in tbl[3] : \A y \in tbl[3] : x <= y IN
         IF typ = CTRLEXPOSETCP
         THEN <<tbl[1] \cup {port}, tbl[2], tbl[3] \ {port}>>
         ELSE <<tbl[1], tbl[2] \cup {port}, tbl[3] \ {port}>>
    ELSE tbl

\* exposedTcpPorts, exposedUdpPorts and the free ports of proxyPorts after
\* digestFrame: no branch touches them
DigestTables(typ, tbl) == tbl

\* ------------------------------------------------------------- channels
\* a receive that takes the newest value of the buffer instead of the oldest
RecvNewest(q) == q[Len(q)]

\* the value a receive takes from a buffered channel: the oldest one
Recv(q) == Head(q)

\* a send on a buffered channel goes through when the buffer has room
SendReady(q) == Len(q) < ChanCap

\* ------------------------------------------------------------------ handle
\* case <-clientctx.Done(): return
HandleDone ==
    /\ Alive
    /\ hpc = "select"
    /\ Done
    /\ hpc' = "deferRespChan"
    /\ UNCHANGED <<rpc, reqChan, respChan, reqClosed, respClosed, connClosed,
                   cnlCalled, parentDone, rfr, wmsg, written, nOut, digested,
                   lastTyp, triggers, wire, budget>>
    /\ UNCHANGED <<tblVars, srvVars, poolVars>>

\* case msg := <-reqChan: c.digestFrame(msg, respChan, cnl)
HandleReq ==
    /\ Alive
    /\ hpc = "select"
    /\ reqChan # <<>>
    /\ LET msg == Recv(reqChan) IN
        /\ reqChan' = Tail(reqChan)
        /\ digested' = digested + 1
        /\ lastTyp' = msg
        /\ respChan' = DigestResp(msg, respChan)
        /\ cnlCalled' = (cnlCalled \/ DigestCancels(msg))
        /\ triggers' = IF DigestCancels(msg) THEN triggers \cup {"unpair"}
                       ELSE triggers
        /\ LET tbl == DigestTables(msg, tblVars) IN
            /\ exposedTcpPorts' = tbl[1]
            /\ exposedUdpPorts' = tbl[2]
            /\ proxyPorts' = tbl[3]
    /\ UNCHANGED <<hpc, rpc, reqClosed, respClosed, connClosed, parentDone,
                   rfr, wmsg, written, nOut, wire, budget>>
    /\ UNCHANGED <<srvVars, poolVars>>

\* case msg := <-respChan: Utils.ToByteArray(msg) fails: continue
HandleRespEncodeErr ==
    /\ Alive
    /\ hpc = "select"
    /\ respChan # <<>>
    /\ respChan' = Tail(respChan)
    /\ UNCHANGED <<hpc, rpc, reqChan, reqClosed, respClosed, connClosed,
                   cnlCalled, parentDone, rfr, wmsg, written, nOut, digested,
                   lastTyp, triggers, wire, budget>>
    /\ UNCHANGED <<tblVars, srvVars, poolVars>>

\* case msg := <-respChan: the frame is encoded and c.Conn.Write(by) is entered
HandleResp ==
    /\ Alive
    /\ hpc = "select"
    /\ respChan # <<>>
    /\ wmsg' = Recv(respChan)
    /\ respChan' = Tail(respChan)
    /\ hpc' = "writing"
    /\ UNCHANGED <<rpc, reqChan, reqClosed, respClosed, connClosed, cnlCalled,
                   parentDone, rfr, written, nOut, digested, lastTyp, triggers,
                   wire, budget>>
    /\ UNCHANGED <<tblVars, srvVars, poolVars>>

\* c.Conn.Write(by) returns nil
WriteOk ==
    /\ Alive
    /\ hpc = "writing"
    /\ written' = Append(written, wmsg)
    /\ wmsg' = 0
    /\ hpc' = "select"
    /\ UNCHANGED <<rpc, reqChan, respChan, reqClosed, respClosed, connClosed,
                   cnlCalled, parentDone, rfr, nOut, digested, lastTyp,
                   triggers, wire, budget>>
    /\ UNCHANGED <<tblVars, srvVars, poolVars>>

\* c.Conn.Write(by) returns net.ErrClosed: cnl(); return
WriteClosed ==
    /\ Alive
    /\ hpc = "writing"
    /\ wmsg' = 0
    /\ cnlCalled' = TRUE
    /\ triggers' = triggers \cup {"write"}
    /\ hpc' = "deferRespChan"
    /\ UNCHANGED <<rpc, reqChan, respChan, reqClosed, respClosed, connClosed,
                   parentDone, rfr, written, nOut, digested, lastTyp, wire,
                   budget>>
    /\ UNCHANGED <<tblVars, srvVars, poolVars>>

\* c.Conn.Write(by) returns another error: it is logged, the loop goes on
WriteOther ==
    /\ Alive
    /\ hpc = "writing"
    /\ wmsg' = 0
    /\ hpc' = "select"
    /\ UNCHANGED <<rpc, reqChan, respChan, reqClosed, respClosed, connClosed,
                   cnlCalled, parentDone, rfr, written, nOut, digested,
                   lastTyp, triggers, wire, budget>>
    /\ UNCHANGED <<tblVars, srvVars, poolVars>>

\* the deferred calls of handle, last registered first
\* defer close(respChan)
DeferCloseRespChan ==
    /\ Alive
    /\ hpc = "deferRespChan"
    /\ respClosed' = TRUE
    /\ hpc' = "deferReqChan"
    /\ UNCHANGED <<rpc, reqChan, respChan, reqClosed, connClosed, cnlCalled,
                   parentDone, rfr, wmsg, written, nOut, digested, lastTyp,
                   triggers, wire, budget>>
    /\ UNCHANGED <<tblVars, srvVars, poolVars>>

\* defer close(reqChan)
DeferCloseReqChan ==
    /\ Alive
    /\ hpc = "deferReqChan"
    /\ reqClosed' = TRUE
    /\ hpc' = "deferConn"
    /\ UNCHANGED <<rpc, reqChan, respChan, respClosed, connClosed, cnlCalled,
                   parentDone, rfr, wmsg, written, nOut, digested, lastTyp,
                   triggers, wire, budget>>
    /\ UNCHANGED <<tblVars, srvVars, poolVars>>

\* a handle that returns without the deferred c.Conn.Close()
DeferNoCloseConn ==
    /\ Alive
    /\ hpc = "deferConn"
    /\ hpc' = "done"
    /\ UNCHANGED <<rpc, reqChan, respChan, reqClosed, respClosed, connClosed,
                   cnlCalled, parentDone, rfr, wmsg, written, nOut, digested,
                   lastTyp, triggers, wire, budget>>
    /\ UNCHANGED <<tblVars, srvVars, poolVars>>

\* defer func() { _ = c.Conn.Close() }(), then handle has returned
DeferCloseConn ==
    /\ Alive
    /\ hpc = "deferConn"
    /\ connClosed' = TRUE
    /\ hpc' = "done"
    /\ UNCHANGED <<rpc, reqChan, respChan, reqClosed, respClosed, cnlCalled,
                   parentDone, rfr, wmsg, written, nOut, digested, lastTyp,
                   triggers, wire, budget>>
    /\ UNCHANGED <<tblVars, srvVars, poolVars>>

\* -------------------------------------------------------------- readFrames
\* case <-ctx.Done(): return, and the deferred cnl() runs
ReaderCtxDone ==
    /\ Alive
    /\ rpc = "select"
    /\ Done
    /\ cnlCalled' = TRUE
    /\ rpc' = "done"
    /\ UNCHANGED <<hpc, reqChan, respChan, reqClosed, respClosed, connClosed,
                   parentDone, rfr, wmsg, written, nOut, digested, lastTyp,
                   triggers, wire, budget>>
    /\ UNCHANGED <<tblVars, srvVars, poolVars>>

\* default: Utils.ReadFrame(c.Conn) is entered
ReaderDefault ==
    /\ Alive
    /\ rpc = "select"
    /\ ~Done
    /\ rpc' = "reading"
    /\ UNCHANGED <<hpc, reqChan, respChan, reqClosed, respClosed, connClosed,
                   cnlCalled, parentDone, rfr, wmsg, written, nOut, digested,
                   lastTyp, triggers, wire, budget>>
    /\ UNCHANGED <<tblVars, srvVars, poolVars>>

\* Utils.ReadFrame returns a frame the remote client sent
ReadFrameOk ==
    /\ Alive
    /\ rpc = "reading"
    /\ ~connClosed
    /\ budget > 0
    /\ \E typ \in wire : rfr' = typ
    /\ budget' = budget - 1
    /\ rpc' = "sending"
    /\ UNCHANGED <<hpc, reqChan, respChan, reqClosed, respClosed, connClosed,
                   cnlCalled, parentDone, wmsg, written, nOut, digested,
                   lastTyp, triggers, wire>>
    /\ UNCHANGED <<tblVars, srvVars, poolVars>>

\* a reader that returns on net.ErrClosed only and goes on reading after any
\* other error
ReaderAfterErrSwallow(class) ==
    IF class = "other" THEN [pc |-> "select", cnl |-> FALSE]
    ELSE [pc |-> "done", cnl |-> TRUE]

\* what readFrames does with an error of ReadFrame, by its class
\* ("closed": errors.Is(err, net.ErrClosed); "other": any other error):
\* both branches return, and the deferred cnl() runs
ReaderAfterErr(class) == [pc |-> "done", cnl |-> TRUE]

\* Utils.ReadFrame returns an error; once c.Conn is closed it is net.ErrClosed
ReadFrameErr ==
    /\ Alive
    /\ rpc = "reading"
    /\ \E class \in IF connClosed THEN {"closed"} ELSE {"closed", "other"} :
        /\ rpc' = ReaderAfterErr(class).pc
        /\ cnlCalled' = (cnlCalled \/ ReaderAfterErr(class).cnl)
        /\ triggers' = triggers \cup {IF class = "closed" THEN "readClosed"
                                       ELSE "readOther"}
    /\ UNCHANGED <<hpc, reqChan, respChan, reqClosed, respClosed, connClosed,
                   parentDone, rfr, wmsg, written, nOut, digested, lastTyp,
                   wire, budget>>
    /\ UNCHANGED <<tblVars, srvVars, poolVars>>

\* fromclient <- fr goes through
ReaderSend ==
    /\ Alive
    /\ rpc = "sending"
    /\ ~reqClosed
    /\ SendReady(reqChan)
    /\ reqChan' = Append(reqChan, rfr)
    /\ rfr' = NoFrame
    /\ rpc' = "select"
    /\ UNCHANGED <<hpc, respChan, reqClosed, respClosed, connClosed, cnlCalled,
                   parentDone, wmsg, written, nOut, digested, lastTyp,
                   triggers, wire, budget>>
    /\ UNCHANGED <<tblVars, srvVars, poolVars>>

\* fromclient <- fr on the closed channel: panic: send on closed channel
ReaderSendPanic ==
    /\ Alive
    /\ rpc = "sending"
    /\ reqClosed
    /\ rpc' = "panic"
    /\ UNCHANGED <<hpc, reqChan, respChan, reqClosed, respClosed, connClosed,
                   cnlCalled, parentDone, rfr, wmsg, written, nOut, digested,
                   lastTyp, triggers, wire, budget>>
    /\ UNCHANGED <<tblVars, srvVars, poolVars>>

\* ------------------------------------------------------------- environment
\* the context handed to HandleClient is cancelled
ParentCancel ==
    /\ Alive
    /\ ~parentDone
    /\ hpc # "done"
    /\ parentDone' = TRUE
    /\ triggers' = triggers \cup {"parent"}
    /\ UNCHANGED <<hpc, rpc, reqChan, respChan, reqClosed, respClosed,
                   connClosed, cnlCalled, rfr, wmsg, written, nOut, digested,
                   lastTyp, wire, budget>>
    /\ UNCHANGED <<tblVars, srvVars, poolVars>>

\* a source of outbound frames (a relay pump, the response path) places the
\* next frame on the outbound queue
Produce ==
    /\ Alive
    /\ hpc \in {"select", "writing"}
    /\ nOut < MaxOut
    /\ SendReady(respChan)
    /\ nOut' = nOut + 1
    /\ respChan' = Append(respChan, nOut + 1)
    /\ UNCHANGED <<hpc, rpc, reqChan, reqClosed, respClosed, connClosed,
                   cnlCalled, parentDone, rfr, wmsg, written, digested,
                   lastTyp, triggers, wire, budget>>
    /\ UNCHANGED <<tblVars, srvVars, poolVars>>

Next ==
    \/ HandleDone
    \/ HandleReq
    \/ HandleRespEncodeErr
    \/ HandleResp
    \/ WriteOk
    \/ WriteClosed
    \/ WriteOther
    \/ DeferCloseRespChan
    \/ DeferCloseReqChan
    \/ DeferCloseConn
    \/ ReaderCtxDone
    \/ ReaderDefault
    \/ ReadFrameOk
    \/ ReadFrameErr
    \/ ReaderSend
    \/ ReaderSendPanic
    \/ ParentCancel
    \/ Produce

Spec == Init /\ [][Next]_vars

\* ================================================================ Server.run
\* the server process is running: no panic has ended it
SrvAlive == spc # "panic"

SrvInit ==
    /\ HandlerStart
    /\ wire = FrameTypes
    /\ budget = MaxFrames
    /\ PoolIdle
    /\ spc = "start"
    /\ ctxDone = FALSE
    /\ tlsOk \in BOOLEAN
    /\ iter = 0
    /\ openL = {}
    /\ cancelledL = {}
    /\ proxy = 0
    /\ acceptRes = "none"
    /\ managed = {}
    /\ panicCause = "none"

\* config := prepareTlsConfig(); if config == nil { return }
RunPrepareTls ==
    /\ spc = "start"
    /\ spc' = IF tlsOk THEN "loop" ELSE "returned"
    /\ UNCHANGED <<ctxDone, tlsOk, iter, openL, cancelledL, proxy, acceptRes,
                   managed, panicCause>>
    /\ UNCHANGED <<hVars, poolVars>>

\* case <-context.Done(): return
RunCtxDone ==
    /\ spc = "loop"
    /\ ctxDone
    /\ spc' = "returned"
    /\ UNCHANGED <<ctxDone, tlsOk, iter, openL, cancelledL, proxy, acceptRes,
                   managed, panicCause>>
    /\ UNCHANGED <<hVars, poolVars>>

\* default: s.waitForCtrlConnection(context, config) is called
RunDefault ==
    /\ spc = "loop"
    /\ ~ctxDone
    /\ iter < MaxIter
    /\ iter' = iter + 1
    /\ acceptRes' = "none"
    /\ spc' = "listen"
    /\ UNCHANGED <<ctxDone, tlsOk, openL, cancelledL, proxy, managed,
                   panicCause>>
    /\ UNCHANGED <<hVars, poolVars>>

\* tls.Listen binds the control port; the helper goroutine is started and
\* l.Accept() is entered
ListenOk ==
    /\ spc = "listen"
    /\ openL = {}
    /\ openL' = {iter}
    /\ spc' = "accepting"
    /\ UNCHANGED <<ctxDone, tlsOk, iter, cancelledL, proxy, acceptRes,
                   managed, panicCause>>
    /\ UNCHANGED <<hVars, poolVars>>

\* tls.Listen fails because the listener of an earlier call is still bound to
\* the control port: panic(err)
ListenBusy ==
    /\ spc = "listen"
    /\ openL # {}
    /\ panicCause' = "bindOwn"
    /\ spc' = "panic"
    /\ UNCHANGED <<ctxDone, tlsOk, iter, openL, cancelledL, proxy, acceptRes,
                   managed>>
    /\ UNCHANGED <<hVars, poolVars>>

\* tls.Listen fails for a reason outside the server (the port is taken by
\* another process): panic(err)
ListenErr ==
    /\ spc = "listen"
    /\ openL = {}
    /\ panicCause' = "bind"
    /\ spc' = "panic"
    /\ UNCHANGED <<ctxDone, tlsOk, iter, openL, cancelledL, proxy, acceptRes,
                   managed>>
    /\ UNCHANGED <<hVars, poolVars>>

\* the helper goroutine of call k: <-ctx.Done() on the listening context
\* (cancelled by listCancel() or with the context of run), then l.Close()
HelperClose(k) ==
    /\ SrvAlive
    /\ k \in openL
    /\ (k \in cancelledL \/ ctxDone)
    /\ openL' = openL \ {k}
    /\ UNCHANGED <<spc, ctxDone, tlsOk, iter, cancelledL, proxy, acceptRes,
                   managed, panicCause>>
    /\ UNCHANGED <<hVars, poolVars>>

\* l.Accept() returns a connection: s.proxy = NewProxy(conn); return, and the
\* deferred listCancel() runs
AcceptOk ==
    /\ spc = "accepting"
    /\ iter \in openL
    /\ proxy' = iter
    /\ acceptRes' = "ok"
    /\ cancelledL' = cancelledL \cup {iter}
    /\ spc' = "afterWait"
    /\ UNCHANGED <<ctxDone, tlsOk, iter, openL, managed, panicCause>>
    /\ UNCHANGED <<hVars, poolVars>>

\* l.Accept() returns an error, because the listener was closed ("closed") or
\* for another reason ("err"): return, and the deferred listCancel() runs;
\* s.proxy is left as it was
AcceptErr ==
    /\ spc = "accepting"
    /\ acceptRes' = IF iter \in openL THEN "err" ELSE "closed"
    /\ cancelledL' = cancelledL \cup {iter}
    /\ spc' = "afterWait"
    /\ UNCHANGED <<ctxDone, tlsOk, iter, openL, proxy, managed, panicCause>>
    /\ UNCHANGED <<hVars, poolVars>>

\* s.proxy.CtrlConn.RemoteAddr() with s.proxy == nil: nil pointer dereference
RunNilProxy ==
    /\ spc = "afterWait"
    /\ proxy = 0
    /\ panicCause' = "nilproxy"
    /\ spc' = "panic"
    /\ UNCHANGED <<ctxDone, tlsOk, iter, openL, cancelledL, proxy, acceptRes,
                   managed>>
    /\ UNCHANGED <<hVars, poolVars>>

\* a run that hands the connection to a goroutine and goes on with its loop
RunManageAsync ==
    /\ spc = "afterWait"
    /\ proxy # 0
    /\ managed' = managed \cup {proxy}
    /\ spc' = "loop"
    /\ UNCHANGED <<ctxDone, tlsOk, iter, openL, cancelledL, proxy, acceptRes,
                   panicCause>>
    /\ UNCHANGED <<hVars, poolVars>>

\* "Client connected" is logged for s.proxy, its outgoing manager is started
\* and s.proxy.manageCtrlConnectionIncoming(context) is entered
RunManage ==
    /\ spc = "afterWait"
    /\ proxy # 0
    /\ managed' = managed \cup {proxy}
    /\ spc' = "managing"
    /\ UNCHANGED <<ctxDone, tlsOk, iter, openL, cancelledL, proxy, acceptRes,
                   panicCause>>
    /\ UNCHANGED <<hVars, poolVars>>

\* manageCtrlConnectionIncoming returns (the client is disconnected or the
\* connection closed); "Client disconnected" is logged and the loop goes on
ManageReturn ==
    /\ spc = "managing"
    /\ managed' = managed \ {proxy}
    /\ spc' = "loop"
    /\ UNCHANGED <<ctxDone, tlsOk, iter, openL, cancelledL, proxy, acceptRes,
                   panicCause>>
    /\ UNCHANGED <<hVars, poolVars>>

\* the context handed to Server.run is cancelled
CtxCancel ==
    /\ SrvAlive
    /\ spc # "returned"
    /\ ~ctxDone
    /\ ctxDone' = TRUE
    /\ UNCHANGED <<spc, tlsOk, iter, openL, cancelledL, proxy, acceptRes,
                   managed, panicCause>>
    /\ UNCHANGED <<hVars, poolVars>>

SrvNext ==
    \/ RunPrepareTls
    \/ RunCtxDone
    \/ RunDefault
    \/ ListenOk
    \/ ListenBusy
    \/ ListenErr
    \/ \E k \in 1..MaxIter : HelperClose(k)
    \/ AcceptOk
    \/ AcceptErr
    \/ RunNilProxy
    \/ RunManage
    \/ ManageReturn
    \/ CtxCancel

SrvSpec == SrvInit /\ [][SrvNext]_vars

\* ============================================================= HandleClient
\* NewPortqueue(): a new queue that holds every proxy port
NewPortqueue == AllPorts

PoolInit ==
    /\ HandlerStart
    /\ wire = FrameTypes
    /\ budget = MaxFrames
    /\ SrvIdle
    /\ sessPool = <<>>
    /\ poolFree = <<>>
    /\ relayPorts = <<>>

\* HandleClient(ctx, conn, logger): a new ClientHandler with empty relay
\* tables and ch.proxyPorts = NewPortqueue()
HandleClient ==
    /\ Len(sessPool) < MaxSessions
    /\ poolFree' = Append(poolFree, NewPortqueue)
    /\ sessPool' = Append(sessPool, Len(poolFree) + 1)
    /\ relayPorts' = Append(relayPorts, {})
    /\ UNCHANGED <<hVars, srvVars>>

\* session s starts a relay: acquire() on its proxyPorts takes a free port
Acquire(s) ==
    /\ Cardinality(relayPorts[s]) < MaxRelays
    /\ \E port \in poolFree[sessPool[s]] :
        /\ poolFree' = [poolFree EXCEPT ![sessPool[s]] = @ \ {port}]
        /\ relayPorts' = [relayPorts EXCEPT ![s] = @ \cup {port}]
    /\ UNCHANGED sessPool
    /\ UNCHANGED <<hVars, srvVars>>

\* session s stops a relay: release(port) returns its port to proxyPorts
Release(s) ==
    /\ \E port \in relayPorts[s] :
        /\ poolFree' = [poolFree EXCEPT ![sessPool[s]] = @ \cup {port}]
        /\ relayPorts' = [relayPorts EXCEPT ![s] = @ \ {port}]
    /\ UNCHANGED sessPool
    /\ UNCHANGED <<hVars, srvVars>>

PoolNext ==
    \/ HandleClient
    \/ \E s \in DOMAIN sessPool : Acquire(s)
    \/ \E s \in DOMAIN sessPool : Release(s)

PoolSpec == PoolInit /\ [][PoolNext]_vars

\* goroutines are scheduled, reads and writes on the connection return, and
\* the remote client and the parent context act as long as they can: the
\* system never stops while a step is possible
FairSpec == Spec /\ WF_vars(Next)

TypeOK ==
    /\ hpc \in {"select", "writing", "deferRespChan", "deferReqChan",
                "deferConn", "done"}
    /\ rpc \in {"select", "reading", "sending", "done", "panic"}
    /\ Len(reqChan) <= ChanCap
    /\ budget \in 0..BurstFrames

\* ------------------------------------------------------------ vocabulary
\* handle has digested an UNPAIR frame
UnpairDigested == "unpair" \in triggers

\* ReadFrame has returned an error to readFrames
ReadErrored == triggers \cap {"readClosed", "readOther"} # {}

\* handle has returned and its deferred calls have run
Returned == hpc = "done"

\* no step of the session is possible any more
Stopped == ~ENABLED Next

\* a step in which handle digests a frame
DigestStep == digested' = digested + 1

\* ------------------------------------------------------------------ C1
\* C1: for a Connected session, once handle digests an UNPAIR frame the
\* session's scope is cancelled, handle eventually returns with the control
\* connection closed, and digesting the UNPAIR places no response frame on
\* the outbound queue.
C1_UnpairEndsSession ==
    /\ [](UnpairDigested => cnlCalled)
    /\ [][(DigestStep /\ lastTyp' = CTRLUNPAIR) => respChan' = respChan]_vars
    /\ (UnpairDigested ~> (Returned /\ connClosed))

\* ------------------------------------------------------------------ C2
\* C2: every error of ReadFrame, of either class, ends the session: the
\* reader has cancelled the scope and exited, it reads no further frame, and
\* handle goes to teardown: the Done case of its select is open to it, and
\* the session does not come to rest before handle has returned with the
\* connection closed.
C2_ReadErrorEndsSession ==
    /\ [](ReadErrored =>
            /\ cnlCalled
            /\ rpc = "done"
            /\ (hpc = "select" => ENABLED HandleDone)
            /\ (Stopped => Returned /\ connClosed))
    /\ [][ReadErrored => (budget' = budget /\ rfr' = rfr /\ rpc' = rpc)]_vars

\* a read error of each class has ended a session
C2_Witness ==
    /\ "readOther" \in triggers
    /\ Returned
    /\ budget > 0

\* ------------------------------------------------------------------ C3
\* C3: under fair scheduling, after the session's scope is cancelled by any
\* trigger every task of the session terminates: handle returns and the
\* reader goroutine exits.
C3_CancelTerminatesAll == Done ~> (Returned /\ rpc = "done")

\* ------------------------------------------------------------------ C4
\* C4: on every path by which handle returns the control connection is
\* closed once it has returned, and handle does not close it at any point
\* before its return.
C4_ConnClosedExactlyOnReturn ==
    /\ Returned => connClosed
    /\ connClosed => hpc = "done"

\* handle has returned through the write that failed with net.ErrClosed
C4_Witness ==
    /\ Returned
    /\ connClosed
    /\ "write" \in triggers

\* ------------------------------------------------------------------ C5
\* C5: for every EXPOSE_TCP, EXPOSE_UDP, HIDE_TCP or HIDE_UDP frame digested
\* while the session is Connected, the session places a response frame for
\* it on the outbound queue.
C5_ExposeHideAnswered ==
    [][(DigestStep /\ lastTyp' \in ExposeHideTypes /\ ~Done)
         => Len(respChan') = Len(respChan) + 1]_vars

\* ------------------------------------------------------------------ C6
\* a step in which c.Conn.Write returns an error that is not net.ErrClosed
WriteOtherStep ==
    /\ hpc = "writing"
    /\ hpc' # "writing"
    /\ written' = written
    /\ "write" \notin triggers'

\* a step in which handle takes a frame from respChan and fails to encode it
EncodeErrStep ==
    /\ hpc = "select"
    /\ hpc' = "select"
    /\ Len(respChan') = Len(respChan) - 1

\* C6: a failure to encode or to write an outbound frame that is not
\* classified as connection-closed is fatal to the session: with it the
\* session's scope is cancelled and handle goes to teardown instead of going
\* on with its loop.
C6_OutboundFailureIsFatal ==
    [][(WriteOtherStep \/ EncodeErrStep)
         => (cnlCalled' /\ hpc' \notin {"select", "writing"})]_vars

\* ------------------------------------------------------------------ C7
\* the Closed state of a session: both tasks have ended and the channels and
\* the connection are closed
Closed ==
    /\ Returned
    /\ rpc = "done"
    /\ connClosed
    /\ reqClosed
    /\ respClosed

\* C7: teardown is idempotent under concurrent triggers: whenever two or more
\* triggers of the cancellation have fired, the session is in no error state
\* (no goroutine has panicked), and when it comes to rest it is Closed, as
\* with a single trigger.
C7_TeardownIdempotent ==
    Cardinality(triggers) >= 2 => (rpc # "panic" /\ (Stopped => Closed))

\* ------------------------------------------------------------------ C8
\* C8: frames are written to the connection in the order in which they were
\* placed on the outbound queue (frames are numbered in that order), and no
\* frame is written twice, nor written while it is still queued.
C8_WritesInQueueOrder ==
    /\ \A i, j \in DOMAIN written : i < j => written[i] < written[j]
    /\ \A i \in DOMAIN written :
        /\ written[i] \in 1..nOut
        /\ written[i] # wmsg
        /\ \A k \in DOMAIN respChan : respChan[k] # written[i]

\* two frames have been written
C8_Witness == Len(written) >= 2

\* ------------------------------------------------------------------ C9
\* readFrames is blocked in fromclient <- fr on a full reqChan
ReaderBlockedOnFull ==
    /\ rpc = "sending"
    /\ ~reqClosed
    /\ ~SendReady(reqChan)

\* C9: both queues are bounded by 10 frames, and a reader that meets a full
\* inbound queue has a step of its own to take (a timeout, a drop) instead of
\* waiting for handle for as long as handle does not receive.
C9_BoundedQueuesWithTimeout ==
    /\ Len(reqChan) <= ChanCap
    /\ Len(respChan) <= ChanCap
    /\ (ReaderBlockedOnFull => ENABLED (ReaderSend \/ ReaderSendPanic))

\* ------------------------------------------------------------------ C10
\* C10: a blocked write never stalls frame ingestion: in every state where
\* handle is blocked in c.Conn.Write, the reader can read the next frame the
\* remote client sent and can hand over the frame it holds.
C10_BlockedWriteNeverStallsReader ==
    hpc = "writing" =>
        /\ (rpc = "reading" /\ budget > 0) => ENABLED ReadFrameOk
        /\ rpc = "sending" => ENABLED ReaderSend

C12_CancelWhileAcceptingExits ==
    acceptRes = "closed" =>
        /\ iter \notin openL
        /\ ctxDone
        /\ spc \in {"afterWait", "loop", "returned"}

\* ------------------------------------------------------------------ C13
\* C13: the only process-fatal condition is the failure to prepare the TLS
\* configuration, which aborts startup; no other failure of the accept path
\* (a failed bind, a failed accept) ends in a panic.
C13_OnlyTlsConfigIsFatal ==
    /\ ~tlsOk => (spc \in {"start", "returned"} /\ iter = 0)
    /\ spc # "panic"

\* ------------------------------------------------------------------ C19
\* C19: the proxy run logs and manages after waitForCtrlConnection is the one
\* made for a connection accepted in the same iteration: after a failed
\* accept run neither dereferences a nil proxy nor manages the proxy of an
\* earlier session.
C19_ManagedProxyIsThisIterations ==
    /\ spc = "managing" => (acceptRes = "ok" /\ managed = {iter})
    /\ panicCause # "nilproxy"

\* ------------------------------------------------------------------ C20
\* C20: at most one control listener is bound at any time: when a call of
\* waitForCtrlConnection binds the port, the listener of every earlier call
\* is closed, so the bind never fails on the server's own listener.
C20_OneListenerAtATime ==
    /\ Cardinality(openL) <= 1
    /\ spc = "listen" => openL = {}
    /\ panicCause # "bindOwn"

\* ------------------------------------------------------------------ C14
\* C14: the port allocator is one process-wide pool: every session that
\* HandleClient creates draws from the same pool, so no port is checked out
\* to relays of two sessions at the same time.
C14_OnePoolForAllSessions ==
    /\ \A s, t \in DOMAIN sessPool : sessPool[s] = sessPool[t]
    /\ \A s, t \in DOMAIN relayPorts :
        s # t => relayPorts[s] \cap relayPorts[t] = {}

NamedTypes == ExposeHideTypes \cup {CTRLUNPAIR}

\* C16: digesting a frame whose type is none of UNPAIR, EXPOSE_TCP, HIDE_TCP,
\* EXPOSE_UDP, HIDE_UDP is ignored: handle stays in its loop, the scope is
\* not cancelled, and the relay tables, the port pool and the outbound queue
\* are left as they were.
C16_UnknownFrameIgnored ==
    [][(DigestStep /\ lastTyp' \notin NamedTypes) =>
          /\ hpc' = hpc
          /\ cnlCalled' = cnlCalled
          /\ triggers' = triggers
          /\ exposedTcpPorts' = exposedTcpPorts
          /\ exposedUdpPorts' = exposedUdpPorts
          /\ proxyPorts' = proxyPorts
          /\ respChan' = respChan]_vars

\* a frame of an unknown type has been digested and the session is Connected
C16_Witness ==
    /\ lastTyp = CTRLOTHER
    /\ hpc = "select"
    /\ ~Done

\* ------------------------------------------------------------------ C17
\* C17: the reader never sends on the inbound channel after handle has
\* closed it: no send, pending or new, targets the closed reqChan.
C17_NoSendOnClosedChannel ==
    reqClosed => rpc \notin {"sending", "panic"}

\* ------------------------------------------------------------------ C18
\* C18: once the session's scope is cancelled, the loop of handle digests no
\* further inbound frame and takes no further outbound frame to write, even
\* when frames are still queued.
C18_NothingHandledAfterCancel ==
    [][Done => (digested' = digested /\ (hpc = "select" => hpc' # "writing"))]_vars

====
